---- MODULE Spec2Model ----
(***************************************************************************)
(* Model of the token-list scripts:                                        *)
(*   scripts/utils/web3.py            retry executor and metadata fetcher  *)
(*   scripts/validate_tokens.py       per-record validator and its run     *)
(*   scripts/generate_tokenlists_file.py   registry aggregator             *)
(* Each script is a sequential program; a specification below runs one of  *)
(* them and leaves the variables of the others unchanged.                  *)
(***************************************************************************)
EXTENDS Integers, Sequences, FiniteSets, TLC

VARIABLES
    \* ---- web3.py: fetch_token_data_with_retry / _retry_with_backoff ----
    fpc,             \* field whose executor runs, or "returned" / "raised"
    max_retries,     \* argument max_retries
    retry_delay,     \* argument retry_delay
    retry_backoff,   \* argument retry_backoff
    address,         \* argument address
    attempt,         \* loop variable of `for attempt in range(max_retries)`
    current_delay,   \* local current_delay
    last_exception,  \* local last_exception
    fetched,         \* locals name / symbol / decimals assigned so far
    fresult,         \* value returned or exception raised by the fetch
    events,          \* history: contract calls and sleeps, in order
    \* ---- the mainnet/ directory read by the validator and the aggregator ----
    dir_exists,      \* os.path.isdir(base_dir)
    files,           \* directory snapshot: filename -> content
    \* ---- validate_tokens.py: main ----
    vpc,             \* "start", "loop", "done" (exited) or "aborted" (uncaught exception)
    json_files,      \* local json_files
    vidx,            \* position of the for loop in json_files (1-based)
    vout,            \* the valid / invalid lines printed by main, in order
    vlog,            \* history: one entry per is_valid_file call
    vexit,           \* process exit status, NotExited while running
    \* ---- generate_tokenlists_file.py: main, run twice over the directory ----
    gpc,             \* "start", "loop" or "done"
    grun,            \* "first" or "second" run
    glisting,        \* what os.listdir returned in this run
    gjson_files,     \* local json_files
    gidx,            \* position of the for loop in json_files (1-based)
    tokens,          \* local tokens
    registry,        \* the file tokenlist-mainnet.json
    gruns,           \* history: one entry per finished run
    gexit,           \* process exit status of this run
    \* ---- add_token.py: main ----
    mpc,             \* "start", "connect", "fetch" or "exit"
    raw_address,     \* the address argument as typed
    tdirs,           \* the token directories under mainnet/: name -> data.json
    tdirs0,          \* history: tdirs when main started
    merror,          \* the exception main caught, or None
    mexit            \* value returned by main, the exit status

fetchVars == <<fpc, max_retries, retry_delay, retry_backoff, address, attempt,
               current_delay, last_exception, fetched, fresult, events>>

dirVars == <<dir_exists, files>>

validateVars == <<vpc, json_files, vidx, vout, vlog, vexit>>

generateVars == <<gpc, grun, glisting, gjson_files, gidx, tokens, registry,
                  gruns, gexit>>

mainVars == <<mpc, raw_address, tdirs, tdirs0, merror, mexit>>

vars == <<fetchVars, dirVars, validateVars, generateVars, mainVars>>

\* ------------------------------------------------------------------ bounds
MaxRetriesBound == 3
MaxFiles == 2

\* ------------------------------------------------------- program constants
CHAIN_ID == 143
DEFAULT_MAX_RETRIES == 3
DEFAULT_RETRY_DELAY == 1
DEFAULT_RETRY_BACKOFF == 2

\* ------------------------------------------------------------ input sets
MaxRetriesValues == (0 - 1) .. MaxRetriesBound
RetryDelays == {DEFAULT_RETRY_DELAY, 3}
RetryBackoffs == {DEFAULT_RETRY_BACKOFF, 3}
Errors == {"Web3Exception", "TimeoutError"}

\* 0x5aAeb6053F3E94C9b9A09f33669435E7Ef1BeAed, one character per element
AddrChecksummed ==
    <<"0","x","5","a","A","e","b","6","0","5","3","F","3","E","9","4","C","9",
      "b","9","A","0","9","f","3","3","6","6","9","4","3","5","E","7","E","f",
      "1","B","e","A","e","d">>

FetchAddresses == {AddrChecksummed}

\* values the contract may answer with
OnChainValues(f) ==
    CASE f = "name" -> {"Test"}
      [] f = "symbol" -> {"TST"}
      [] f = "decimals" -> {3, 18}

\* ============================================== states of a program not run
NotExited == 0 - 1

NoDirectory ==
    /\ dir_exists = FALSE
    /\ files = << >>

ValidateIdle ==
    /\ vpc = "idle"
    /\ json_files = << >>
    /\ vidx = 0
    /\ vout = << >>
    /\ vlog = << >>
    /\ vexit = NotExited

NoFile == [exists |-> FALSE, doc |-> << >>]

GenerateIdle ==
    /\ gpc = "idle"
    /\ grun = "first"
    /\ glisting = << >>
    /\ gjson_files = << >>
    /\ gidx = 0
    /\ tokens = << >>
    /\ registry = NoFile
    /\ gruns = << >>
    /\ gexit = NotExited

MainIdle ==
    /\ mpc = "idle"
    /\ raw_address = << >>
    /\ tdirs = << >>
    /\ tdirs0 = << >>
    /\ merror = "None"
    /\ mexit = NotExited

FetchIdle ==
    /\ fpc = "idle"
    /\ max_retries = DEFAULT_MAX_RETRIES
    /\ retry_delay = DEFAULT_RETRY_DELAY
    /\ retry_backoff = DEFAULT_RETRY_BACKOFF
    /\ address = << >>
    /\ attempt = 0
    /\ current_delay = DEFAULT_RETRY_DELAY
    /\ last_exception = "None"
    /\ fetched = << >>
    /\ fresult = [kind |-> "none"]
    /\ events = << >>

\* ===================================================== web3.py, the fetcher
None == "None"

\* order of the three calls in fetch_token_data_with_retry
FetchOrder == <<"name", "symbol", "decimals">>
Fields == {"name", "symbol", "decimals"}

\* variant: the decimals helper carries the symbol helper's operation name
OperationName_copied(f) ==
    CASE f = "name" -> "fetch name"
      [] f = "symbol" -> "fetch symbol"
      [] f = "decimals" -> "fetch symbol"

\* operation_name passed by each fetch_token_<field>_with_retry
OperationName(f) ==
    CASE f = "name" -> "fetch name"
      [] f = "symbol" -> "fetch symbol"
      [] f = "decimals" -> "fetch decimals"

\* variant: sleeps after the last failed attempt as well
ShouldSleep_always(a, n) == a < n

\* `if attempt < max_retries - 1`
ShouldSleep(a, n) == a < n - 1

\* variant: linear instead of exponential growth
NextDelay_additive(d, b) == d + b

\* `current_delay *= retry_backoff`
NextDelay(d, b) == d * b

\* variant: the body runs once even for an empty range
InLoop_atLeastOnce(a, n) == a = 0 \/ a < n

\* `for attempt in range(max_retries)`: the loop has another iteration
InLoop(a, n) == a < n

\* variant: the first exception is kept
RecordException_first(prev, e) == IF prev = "None" THEN e ELSE prev

\* `last_exception = e`
RecordException(prev, e) == e

\* variant: the delay reached by the previous field is carried over
StartDelay_carried(d, reached) == reached

\* `current_delay = retry_delay` at the start of each executor
StartDelay(d, reached) == d

\* the field fetched after f, or "returned" after the last one
AfterField(f) ==
    CASE f = "name" -> "symbol"
      [] f = "symbol" -> "decimals"
      [] f = "decimals" -> "returned"

CallEvent(f, ok, err, val) ==
    [kind |-> "call", op |-> f, ok |-> ok, err |-> err, val |-> val, delay |-> 0]
SleepEvent(f, d) ==
    [kind |-> "sleep", op |-> f, ok |-> FALSE, err |-> None, val |-> None, delay |-> d]

\* variant: the fetch fills in a logo reference
TokenData_withLogo(addr, vals) ==
    [chainId |-> CHAIN_ID, address |-> addr, name |-> vals["name"],
     symbol |-> vals["symbol"], decimals |-> vals["decimals"],
     logoURI |-> "https://x/logo.png"]

\* the dict returned by fetch_token_data_with_retry
TokenData(addr, vals) ==
    [chainId |-> CHAIN_ID, address |-> addr, name |-> vals["name"],
     symbol |-> vals["symbol"], decimals |-> vals["decimals"]]

NoResult == [kind |-> "none"]

InitFetch ==
    /\ fpc = FetchOrder[1]
    /\ max_retries \in MaxRetriesValues
    /\ retry_delay \in RetryDelays
    /\ retry_backoff \in RetryBackoffs
    /\ address \in FetchAddresses
    /\ attempt = 0
    /\ current_delay = retry_delay
    /\ last_exception = None
    /\ fetched = [f \in {} |-> None]
    /\ fresult = NoResult
    /\ events = <<>>
    /\ NoDirectory
    /\ ValidateIdle
    /\ GenerateIdle
    /\ MainIdle

\* one loop iteration in which func() returns: `return func()`
AttemptSucceeds ==
    /\ fpc \in Fields
    /\ InLoop(attempt, max_retries)
    /\ \E v \in OnChainValues(fpc) :
        /\ events' = Append(events, CallEvent(fpc, TRUE, None, v))
        /\ fetched' = [f \in (DOMAIN fetched) \cup {fpc} |->
                          IF f = fpc THEN v ELSE fetched[f]]
        /\ fpc' = AfterField(fpc)
        /\ fresult' = IF AfterField(fpc) = "returned"
                        THEN [kind |-> "record",
                              data |-> TokenData(address, fetched')]
                        ELSE fresult
    \* the next field's executor starts with its own locals
    /\ attempt' = 0
    /\ current_delay' = StartDelay(retry_delay, current_delay)
    /\ last_exception' = None
    /\ UNCHANGED <<max_retries, retry_delay, retry_backoff, address>>
    /\ UNCHANGED <<dirVars, validateVars, generateVars, mainVars>>

\* one loop iteration in which func() raises: the except block
AttemptFails ==
    /\ fpc \in Fields
    /\ InLoop(attempt, max_retries)
    /\ \E e \in Errors :
        /\ last_exception' = RecordException(last_exception, e)
        /\ IF ShouldSleep(attempt, max_retries)
             THEN /\ events' = events \o <<CallEvent(fpc, FALSE, e, None),
                                           SleepEvent(fpc, current_delay)>>
                  /\ current_delay' = NextDelay(current_delay, retry_backoff)
             ELSE /\ events' = Append(events, CallEvent(fpc, FALSE, e, None))
                  /\ current_delay' = current_delay
    /\ attempt' = attempt + 1
    /\ UNCHANGED <<fpc, max_retries, retry_delay, retry_backoff, address,
                   fetched, fresult>>
    /\ UNCHANGED <<dirVars, validateVars, generateVars, mainVars>>

\* the loop is over without a return: `raise Exception(...) from last_exception`
RaiseExhausted ==
    /\ fpc \in Fields
    /\ ~InLoop(attempt, max_retries)
    /\ fresult' = [kind |-> "Exception", operation_name |-> OperationName(fpc),
                   attempts |-> max_retries, cause |-> last_exception]
    /\ fpc' = "raised"
    /\ UNCHANGED <<max_retries, retry_delay, retry_backoff, address, attempt,
                   current_delay, last_exception, fetched, events>>
    /\ UNCHANGED <<dirVars, validateVars, generateVars, mainVars>>

NextFetch == AttemptSucceeds \/ AttemptFails \/ RaiseExhausted

SpecFetch == InitFetch /\ [][NextFetch]_vars

\* the program is sequential and keeps running until it returns or raises
SpecFetchLive == InitFetch /\ [][NextFetch]_vars /\ WF_vars(NextFetch)

\* ======================================================= the staged records
\* file names as sequences of code points, as Python orders strings
ExtJson == <<46, 106, 115, 111, 110>>
ExtJsonc == <<46, 106, 115, 111, 110, 99>>
FileAAA == <<65, 65, 65>> \o ExtJson
FileMMM == <<77, 77, 77>> \o ExtJsonc
FileZZZ == <<90, 90, 90>> \o ExtJson
FileLower == <<97, 97, 97>> \o ExtJson
FileReadme == <<82, 69, 65, 68, 77, 69, 46, 109, 100>>
FileNames == {FileAAA, FileMMM, FileZZZ, FileLower, FileReadme}

HexLower == {"a", "b", "c", "d", "e", "f"}
HexUpper == {"A", "B", "C", "D", "E", "F"}
Digits == {"0", "1", "2", "3", "4", "5", "6", "7", "8", "9"}
ToLower(c) ==
    CASE c = "A" -> "a" [] c = "B" -> "b" [] c = "C" -> "c"
      [] c = "D" -> "d" [] c = "E" -> "e" [] c = "F" -> "f" [] OTHER -> c
ToUpper(c) ==
    CASE c = "a" -> "A" [] c = "b" -> "B" [] c = "c" -> "C"
      [] c = "d" -> "D" [] c = "e" -> "E" [] c = "f" -> "F" [] OTHER -> c

\* other spellings of the address, well-formed and malformed
AddrLower == [i \in 1..Len(AddrChecksummed) |-> ToLower(AddrChecksummed[i])]
AddrUpper == [i \in 1..Len(AddrChecksummed) |->
                 IF i <= 2 THEN AddrChecksummed[i] ELSE ToUpper(AddrChecksummed[i])]
AddrShort == SubSeq(AddrChecksummed, 1, Len(AddrChecksummed) - 1)
AddrNonHex == [AddrChecksummed EXCEPT ![Len(AddrChecksummed)] = "g"]
AddrNoPrefix == [AddrChecksummed EXCEPT ![2] = "0"]
Addresses == {AddrChecksummed, AddrLower, AddrUpper, AddrShort, AddrNonHex, AddrNoPrefix}

ChainIds == {CHAIN_ID, 1}
DecimalsValues == {5, 6, 18, 36, 37}
LogoURL == "https://x/logo.png"

Record(chain, addr, dec) ==
    [chainId |-> chain, address |-> addr, name |-> "Test", symbol |-> "TST",
     decimals |-> dec, logoURI |-> LogoURL]
Without(r, ks) == [k \in (DOMAIN r) \ ks |-> r[k]]
MissingSets == {{}, {"logoURI"}, {"decimals"}, {"chainId", "address"}}

\* every combination of defects of one record
AllRecords ==
    {Without(Record(c, a, d), m) :
        c \in ChainIds, a \in Addresses, d \in DecimalsValues, m \in MissingSets}

\* a file's content: the result of json5.load, or a parse error
Parsed(r) == [parses |-> TRUE, data |-> r]
Unparsable == [parses |-> FALSE, data |-> << >>]

GoodRecord == Record(CHAIN_ID, AddrChecksummed, 18)
\* one content per outcome, for directories of several files
StagedContents ==
    {Unparsable,
     Parsed(GoodRecord),
     Parsed(Without(GoodRecord, {"logoURI"})),
     Parsed(Record(1, AddrChecksummed, 18)),
     Parsed(Record(CHAIN_ID, AddrNonHex, 18)),
     Parsed(Record(CHAIN_ID, AddrChecksummed, 37))}

\* directory snapshots: up to MaxFiles files of staged contents, or one file
\* holding any record
Directories ==
    UNION {[S -> StagedContents] :
              S \in {T \in SUBSET FileNames : Cardinality(T) <= MaxFiles}}
    \cup {[f \in {FileAAA} |-> Parsed(r)] : r \in AllRecords}

\* ---------------------------------------------------- listing and sorting
Range(s) == {s[i] : i \in DOMAIN s}

\* os.listdir: the entries in an arbitrary order
Listings(names) ==
    {l \in [1..Cardinality(names) -> names] : Range(l) = names}

\* str.endswith
EndsWith(s, suffix) ==
    /\ Len(s) >= Len(suffix)
    /\ SubSeq(s, Len(s) - Len(suffix) + 1, Len(s)) = suffix

\* Python's < on str: by code point, a proper prefix first
RECURSIVE LexLessFrom(_, _, _)
LexLessFrom(a, b, i) ==
    IF i > Len(a) THEN i <= Len(b)
    ELSE IF i > Len(b) THEN FALSE
    ELSE IF a[i] < b[i] THEN TRUE
    ELSE IF a[i] > b[i] THEN FALSE
    ELSE LexLessFrom(a, b, i + 1)
LexLess(a, b) == LexLessFrom(a, b, 1)

RECURSIVE Insert(_, _)
Insert(x, s) ==
    IF s = << >> THEN <<x>>
    ELSE IF LexLess(x, s[1]) THEN <<x>> \o s
    ELSE <<s[1]>> \o Insert(x, Tail(s))

\* variant: the listing is used in the order the file system gave it
RECURSIVE sorted_omitted(_)
sorted_omitted(l) == l

\* sorted(os.listdir(base_dir))
RECURSIVE sorted(_)
sorted(l) == IF l = << >> THEN << >> ELSE Insert(l[1], sorted(Tail(l)))

\* `f.endswith(".json") or f.endswith(".jsonc")`
IsRecordFile(f) == EndsWith(f, ExtJson) \/ EndsWith(f, ExtJsonc)

\* the list comprehension building json_files
JsonFiles(listing) == SelectSeq(sorted(listing), IsRecordFile)

\* ================================================ validate_tokens.py
REQUIRED_FIELDS == <<"chainId", "address", "name", "symbol", "decimals", "logoURI">>

\* variant: only lower-case hex digits are allowed
is_valid_address_lowerOnly(a) ==
    /\ Len(a) >= 2 /\ a[1] = "0" /\ a[2] = "x"
    /\ Len(a) = 42
    /\ \A i \in 3..Len(a) : a[i] \in Digits \cup HexLower

\* variant: the length is not checked
is_valid_address_anyLength(a) ==
    /\ Len(a) >= 2 /\ a[1] = "0" /\ a[2] = "x"
    /\ \A i \in 3..Len(a) : a[i] \in Digits \cup HexUpper \cup HexLower

\* is_valid_address
is_valid_address(a) ==
    /\ Len(a) >= 2 /\ a[1] = "0" /\ a[2] = "x"
    /\ Len(a) = 42
    /\ \A i \in 3..Len(a) : a[i] \in Digits \cup HexUpper \cup HexLower

\* answers of the HEAD request: it raises, or it returns headers with or
\* without a content-type
ContentTypes == {"image/png", "image/jpeg", "image/jpg", "image/svg+xml", "text/html"}
ProbeResponses ==
    {[raised |-> TRUE, ctype |-> None]}
    \cup {[raised |-> FALSE, ctype |-> c] : c \in ContentTypes \cup {None}}

image_formats == {"image/png", "image/jpeg", "image/jpg", "image/svg+xml"}

\* is_url_image raises when requests.head raises or the header is absent
ProbeRaises(resp) == resp.raised \/ resp.ctype = None
\* is_url_image's return value otherwise
is_url_image(resp) == resp.ctype \in image_formats

\* variant: the lower bound is exclusive
DecimalsInRange_exclusive(d) == ~(d <= 6 \/ d > 36)

\* `decimals < 6 or decimals > 36` is false
DecimalsInRange(d) == ~(d < 6 \/ d > 36)

\* `missing = [field for field in REQUIRED_FIELDS if field not in data]`
Missing(data) == SelectSeq(REQUIRED_FIELDS, LAMBDA k : k \notin DOMAIN data)

\* variant: decimals is checked before the logo
CheckOrder_decimalsFirst == <<"fields", "chainId", "address", "decimals", "logoURI">>

\* the order of the if statements of is_valid_file
CheckOrder == <<"fields", "chainId", "address", "logoURI", "decimals">>

\* one if statement of is_valid_file: "pass", "fail" (print and return
\* False) or "raise".  data.get(key, default) yields a type object for an
\* absent key: it differs from 143, and calling or comparing it raises.
CheckResult(c, data, resp) ==
    CASE c = "fields" ->
            IF Missing(data) # << >> THEN "fail" ELSE "pass"
      [] c = "chainId" ->
            IF "chainId" \notin DOMAIN data THEN "fail"
            ELSE IF data.chainId # 143 THEN "fail" ELSE "pass"
      [] c = "address" ->
            IF "address" \notin DOMAIN data THEN "raise"
            ELSE IF ~is_valid_address(data.address) THEN "fail" ELSE "pass"
      [] c = "logoURI" ->
            IF "logoURI" \notin DOMAIN data \/ ProbeRaises(resp) THEN "raise"
            ELSE IF ~is_url_image(resp) THEN "fail" ELSE "pass"
      [] c = "decimals" ->
            IF "decimals" \notin DOMAIN data THEN "raise"
            ELSE IF ~DecimalsInRange(data.decimals) THEN "fail" ELSE "pass"

\* the if statements in order, stopping at the first that does not pass
RECURSIVE RunChecks(_, _, _, _)
RunChecks(order, i, data, resp) ==
    IF i > Len(order)
      THEN [performed |-> order, failed |-> None, ret |-> "True"]
      ELSE LET r == CheckResult(order[i], data, resp) IN
           IF r = "pass" THEN RunChecks(order, i + 1, data, resp)
           ELSE [performed |-> SubSeq(order, 1, i), failed |-> order[i],
                 ret |-> IF r = "fail" THEN "False" ELSE "raise"]

\* is_valid_file: the checks performed, the one that stopped it, and the
\* return value "True" / "False", or "raise" for an exception it lets through
is_valid_file(content, resp) ==
    IF ~content.parses
      THEN [performed |-> << >>, failed |-> "read", ret |-> "False"]
      ELSE RunChecks(CheckOrder, 1, content.data, resp)

EXIT_MISSING_DIR == 1
EXIT_NO_FILES == 0
EXIT_RETURN == 0
EXIT_UNCAUGHT == 1

InitValidate ==
    /\ \/ dir_exists = TRUE /\ files \in Directories
       \/ NoDirectory
    /\ vpc = "start"
    /\ json_files = << >>
    /\ vidx = 0
    /\ vout = << >>
    /\ vlog = << >>
    /\ vexit = NotExited
    /\ FetchIdle
    /\ GenerateIdle
    /\ MainIdle

\* `if not os.path.isdir(base_dir): ... sys.exit(1)`
VMissingDirectory ==
    /\ vpc = "start"
    /\ ~dir_exists
    /\ vpc' = "done"
    /\ vexit' = EXIT_MISSING_DIR
    /\ UNCHANGED <<json_files, vidx, vout, vlog>>
    /\ UNCHANGED <<fetchVars, dirVars, generateVars, mainVars>>

\* the listing, and `if not json_files: ... sys.exit(0)`
VListFiles ==
    /\ vpc = "start"
    /\ dir_exists
    /\ \E listing \in Listings(DOMAIN files) :
        /\ json_files' = JsonFiles(listing)
        /\ IF json_files' = << >>
             THEN vpc' = "done" /\ vexit' = EXIT_NO_FILES /\ vidx' = vidx
             ELSE vpc' = "loop" /\ vexit' = vexit /\ vidx' = 1
    /\ UNCHANGED <<vout, vlog>>
    /\ UNCHANGED <<fetchVars, dirVars, generateVars, mainVars>>

\* one iteration of `for filename in json_files`
VValidateFile ==
    /\ vpc = "loop"
    /\ vidx <= Len(json_files)
    /\ \E resp \in ProbeResponses :
        LET f == json_files[vidx]
            r == is_valid_file(files[f], resp)
            probed == "logoURI" \in Range(r.performed) IN
        /\ vlog' = Append(vlog, [file |-> f, performed |-> r.performed,
                                 failed |-> r.failed, ret |-> r.ret,
                                 probes |-> IF probed THEN <<resp>> ELSE << >>])
        /\ IF r.ret = "raise"
             THEN /\ vpc' = "aborted"
                  /\ vexit' = EXIT_UNCAUGHT
                  /\ UNCHANGED <<vout, vidx>>
             ELSE /\ vout' = Append(vout, [file |-> f, valid |-> (r.ret = "True")])
                  /\ vidx' = vidx + 1
                  /\ UNCHANGED <<vpc, vexit>>
    /\ UNCHANGED json_files
    /\ UNCHANGED <<fetchVars, dirVars, generateVars, mainVars>>

\* the loop is over: main returns and the interpreter exits
VReturn ==
    /\ vpc = "loop"
    /\ vidx > Len(json_files)
    /\ vpc' = "done"
    /\ vexit' = EXIT_RETURN
    /\ UNCHANGED <<json_files, vidx, vout, vlog>>
    /\ UNCHANGED <<fetchVars, dirVars, generateVars, mainVars>>

NextValidate == VMissingDirectory \/ VListFiles \/ VValidateFile \/ VReturn

SpecValidate == InitValidate /\ [][NextValidate]_vars

\* ======================================== generate_tokenlists_file.py
\* directory snapshots read by the aggregator
AggContents ==
    {Unparsable,
     Parsed(GoodRecord),
     Parsed(Without(GoodRecord, {"logoURI"})),
     Parsed(Record(1, AddrNonHex, 37))}
AggDirectories ==
    UNION {[S -> AggContents] :
              S \in {T \in SUBSET FileNames : Cardinality(T) <= MaxFiles}}

\* values of datetime.now(timezone.utc).isoformat()
Timestamps == {"2026-01-01T00:00:00+00:00", "2026-01-02T00:00:00+00:00"}

\* the dict `data`, as the ordered key/value pairs json5.dump writes
RegistryDocument(ts, toks) ==
    << <<"name", "Monad Mainnet">>,
       <<"logoURI", "https://raw.githubusercontent.com/monad-crypto/token-list/refs/heads/main/assets/monad.svg">>,
       <<"keywords", <<"monad mainnet">>>>,
       <<"timestamp", ts>>,
       <<"tokens", toks>>,
       <<"version", << <<"major", 0>>, <<"minor", 0>>, <<"patch", 1>> >> >> >>

WrittenFile(doc) == [exists |-> TRUE, doc |-> doc]
\* the file after open(file_out, "w") when nothing was written to it
TruncatedFile == [exists |-> TRUE, doc |-> << >>]
\* open / dump succeed, open raises, or the write raises after truncation
WriteOutcomes == {"written", "open_failed", "write_failed"}

GEXIT_MISSING_DIR == 1
GEXIT_NO_FILES == 0
GEXIT_RETURN == 0

RunEntry(outcome, doc) ==
    [listing |-> glisting, json_files |-> gjson_files, outcome |-> outcome,
     doc |-> doc]

InitGenerate ==
    /\ \/ dir_exists = TRUE /\ files \in AggDirectories
       \/ NoDirectory
    /\ gpc = "start"
    /\ grun = "first"
    /\ glisting = << >>
    /\ gjson_files = << >>
    /\ gidx = 0
    /\ tokens = << >>
    /\ registry = NoFile
    /\ gruns = << >>
    /\ gexit = NotExited
    /\ FetchIdle
    /\ ValidateIdle
    /\ MainIdle

\* `if not os.path.isdir(base_dir): ... sys.exit(1)`
GMissingDirectory ==
    /\ gpc = "start"
    /\ ~dir_exists
    /\ gpc' = "done"
    /\ gexit' = GEXIT_MISSING_DIR
    /\ gruns' = Append(gruns, RunEntry("missing_dir", << >>))
    /\ UNCHANGED <<grun, glisting, gjson_files, gidx, tokens, registry>>
    /\ UNCHANGED <<fetchVars, dirVars, validateVars, mainVars>>

\* the listing, `if not json_files: ... sys.exit(0)`, and `tokens = []`
GListFiles ==
    /\ gpc = "start"
    /\ dir_exists
    /\ \E listing \in Listings(DOMAIN files) :
        /\ glisting' = listing
        /\ gjson_files' = JsonFiles(listing)
        /\ IF gjson_files' = << >>
             THEN /\ gpc' = "done"
                  /\ gexit' = GEXIT_NO_FILES
                  /\ gidx' = gidx
                  /\ gruns' = Append(gruns, [listing |-> listing,
                                             json_files |-> << >>,
                                             outcome |-> "no_files",
                                             doc |-> << >>])
             ELSE /\ gpc' = "loop"
                  /\ gexit' = gexit
                  /\ gidx' = 1
                  /\ gruns' = gruns
    /\ tokens' = << >>
    /\ UNCHANGED <<grun, registry>>
    /\ UNCHANGED <<fetchVars, dirVars, validateVars, mainVars>>

\* variant: a file that does not parse is skipped
GParseFile_bestEffort ==
    /\ gpc = "loop"
    /\ gidx <= Len(gjson_files)
    /\ tokens' = IF files[gjson_files[gidx]].parses
                   THEN Append(tokens, files[gjson_files[gidx]].data)
                   ELSE tokens
    /\ gidx' = gidx + 1
    /\ UNCHANGED <<gpc, gexit, gruns, grun, glisting, gjson_files, registry>>
    /\ UNCHANGED <<fetchVars, dirVars, validateVars, mainVars>>

\* variant: a record that fails the validator's field or chain check is
\* left out of tokens
GParseFile_validating ==
    /\ gpc = "loop"
    /\ gidx <= Len(gjson_files)
    /\ IF files[gjson_files[gidx]].parses
         THEN /\ tokens' =
                    IF /\ Missing(files[gjson_files[gidx]].data) = << >>
                       /\ files[gjson_files[gidx]].data.chainId = 143
                      THEN Append(tokens, files[gjson_files[gidx]].data)
                      ELSE tokens
              /\ gidx' = gidx + 1
              /\ UNCHANGED <<gpc, gexit, gruns>>
         ELSE /\ gpc' = "done"
              /\ gexit' = GEXIT_RETURN
              /\ gruns' = Append(gruns, RunEntry("parse_error", << >>))
              /\ UNCHANGED <<tokens, gidx>>
    /\ UNCHANGED <<grun, glisting, gjson_files, registry>>
    /\ UNCHANGED <<fetchVars, dirVars, validateVars, mainVars>>

\* one iteration of `for filename in json_files`: json5.load, then
\* tokens.append, or `return False` from the except block
GParseFile ==
    /\ gpc = "loop"
    /\ gidx <= Len(gjson_files)
    /\ IF files[gjson_files[gidx]].parses
         THEN /\ tokens' = Append(tokens, files[gjson_files[gidx]].data)
              /\ gidx' = gidx + 1
              /\ UNCHANGED <<gpc, gexit, gruns>>
         ELSE /\ gpc' = "done"
              /\ gexit' = GEXIT_RETURN
              /\ gruns' = Append(gruns, RunEntry("parse_error", << >>))
              /\ UNCHANGED <<tokens, gidx>>
    /\ UNCHANGED <<grun, glisting, gjson_files, registry>>
    /\ UNCHANGED <<fetchVars, dirVars, validateVars, mainVars>>

\* after the loop: build `data`, open the output file and dump
GWrite ==
    /\ gpc = "loop"
    /\ gidx > Len(gjson_files)
    /\ \E ts \in Timestamps, o \in WriteOutcomes :
        LET doc == RegistryDocument(ts, tokens) IN
        /\ registry' = CASE o = "written" -> WrittenFile(doc)
                         [] o = "open_failed" -> registry
                         [] o = "write_failed" -> TruncatedFile
        /\ gruns' = Append(gruns, RunEntry(o, IF o = "written" THEN doc ELSE << >>))
    /\ gpc' = "done"
    /\ gexit' = GEXIT_RETURN
    /\ UNCHANGED <<grun, glisting, gjson_files, gidx, tokens>>
    /\ UNCHANGED <<fetchVars, dirVars, validateVars, mainVars>>

\* the script is started again over the unchanged directory
GSecondRun ==
    /\ gpc = "done"
    /\ grun = "first"
    /\ grun' = "second"
    /\ gpc' = "start"
    /\ glisting' = << >>
    /\ gjson_files' = << >>
    /\ gidx' = 0
    /\ tokens' = << >>
    /\ gexit' = NotExited
    /\ UNCHANGED <<registry, gruns>>
    /\ UNCHANGED <<fetchVars, dirVars, validateVars, mainVars>>

NextGenerate ==
    GMissingDirectory \/ GListFiles \/ GParseFile \/ GWrite \/ GSecondRun

SpecGenerate == InitGenerate /\ [][NextGenerate]_vars

\* ======================================================== add_token.py
\* a mixed-case spelling that is not the checksummed one
AddrBadChecksum == [AddrLower EXCEPT ![4] = "A"]

\* what the user may pass as the address argument
RawAddresses ==
    {<< >>, AddrChecksummed, AddrLower, AddrUpper, AddrBadChecksum,
     AddrShort, AddrNonHex, AddrNoPrefix}

HexChars == Digits \cup HexLower \cup HexUpper
HasPrefix(a) == Len(a) >= 2 /\ a[1] = "0" /\ a[2] \in {"x", "X"}
\* the hex digits of an address string, without the 0x prefix
Payload(a) == IF HasPrefix(a) THEN SubSeq(a, 3, Len(a)) ELSE a
Lowered(a) == [i \in DOMAIN a |-> ToLower(a[i])]

\* Web3.to_checksum_address: the EIP-55 spelling.  The hash that decides the
\* case of each digit is not computed; the spelling of the address used
\* here is the one the standard lists.
to_checksum_address(a) ==
    CASE Lowered(Payload(a)) = Payload(AddrLower) -> AddrChecksummed

\* Web3.is_address for a text argument: 40 hex digits with or without
\* prefix, and a mixed-case spelling must be the checksummed one
is_address(a) ==
    LET h == Payload(a) IN
    /\ Len(h) = 40
    /\ \A i \in DOMAIN h : h[i] \in HexChars
    /\ \/ \A i \in DOMAIN h : h[i] \notin HexUpper
       \/ \A i \in DOMAIN h : h[i] \notin HexLower
       \/ <<"0", "x">> \o h = to_checksum_address(a)

MEXIT_FAILURE == 1
MEXIT_SUCCESS == 0

ProbeEvent(connected) ==
    [kind |-> "is_connected", op |-> "connect", ok |-> connected,
     err |-> None, val |-> None, delay |-> 0]

\* a token directory: with or without its data.json
TokenDir(hasFile, data) == [has_file |-> hasFile, data |-> data]
\* a directory left by an earlier run
OlderDir == [s \in {"TST"} |-> TokenDir(TRUE, [symbol |-> "TST"])]

\* mkdir and the write succeed, mkdir raises, or opening data.json raises
CreateOutcomes == {"created", "mkdir_failed", "open_failed"}

InitAddToken ==
    /\ mpc = "start"
    /\ raw_address \in RawAddresses
    /\ tdirs \in {<< >>, OlderDir}
    /\ tdirs0 = tdirs
    /\ merror = None
    /\ mexit = NotExited
    /\ dir_exists \in BOOLEAN
    /\ files = << >>
    /\ FetchIdle
    /\ ValidateIdle
    /\ GenerateIdle

\* `if not address: return 1`, then validate_address inside the try
MValidateAddress ==
    /\ mpc = "start"
    /\ IF raw_address = << >>
         THEN mpc' = "exit" /\ mexit' = MEXIT_FAILURE /\ merror' = merror
              /\ address' = address
         ELSE IF ~is_address(raw_address)
           THEN mpc' = "exit" /\ mexit' = MEXIT_FAILURE
                /\ merror' = "ValueError" /\ address' = address
           ELSE mpc' = "connect" /\ mexit' = mexit /\ merror' = merror
                /\ address' = to_checksum_address(raw_address)
    /\ UNCHANGED <<fpc, max_retries, retry_delay, retry_backoff, attempt,
                   current_delay, last_exception, fetched, fresult, events>>
    /\ UNCHANGED <<raw_address, tdirs, tdirs0>>
    /\ UNCHANGED <<dirVars, validateVars, generateVars>>

\* variant: a failed liveness probe is ignored
MConnect_unchecked ==
    /\ mpc = "connect"
    /\ \E connected \in BOOLEAN :
        events' = Append(events, ProbeEvent(connected))
    /\ mpc' = "fetch"
    /\ fpc' = FetchOrder[1]
    /\ UNCHANGED <<mexit, merror>>
    /\ UNCHANGED <<max_retries, retry_delay, retry_backoff, address, attempt,
                   current_delay, last_exception, fetched, fresult>>
    /\ UNCHANGED <<raw_address, tdirs, tdirs0>>
    /\ UNCHANGED <<dirVars, validateVars, generateVars>>

\* get_web3_connection: one is_connected call, ConnectionError if it is
\* False; otherwise main goes on to fetch_token_data_with_retry
MConnect ==
    /\ mpc = "connect"
    /\ \E connected \in BOOLEAN :
        /\ events' = Append(events, ProbeEvent(connected))
        /\ IF connected
             THEN /\ mpc' = "fetch"
                  /\ fpc' = FetchOrder[1]
                  /\ UNCHANGED <<mexit, merror>>
             ELSE /\ mpc' = "exit"
                  /\ mexit' = MEXIT_FAILURE
                  /\ merror' = "ConnectionError"
                  /\ fpc' = fpc
    /\ UNCHANGED <<max_retries, retry_delay, retry_backoff, address, attempt,
                   current_delay, last_exception, fetched, fresult>>
    /\ UNCHANGED <<raw_address, tdirs, tdirs0>>
    /\ UNCHANGED <<dirVars, validateVars, generateVars>>

\* variant: the token directory is made before the fetch is known to succeed
MFetchFailed_leavesDirectory ==
    /\ mpc = "fetch"
    /\ fpc = "raised"
    /\ mpc' = "exit"
    /\ mexit' = MEXIT_FAILURE
    /\ merror' = "Exception"
    /\ tdirs' = [s \in (DOMAIN tdirs) \cup {"NEW"} |->
                    IF s \in DOMAIN tdirs THEN tdirs[s] ELSE TokenDir(FALSE, << >>)]
    /\ UNCHANGED <<raw_address, tdirs0>>
    /\ UNCHANGED <<fetchVars, dirVars, validateVars, generateVars>>

\* the exception of the fetch reaches `except Exception`: return 1
MFetchFailed ==
    /\ mpc = "fetch"
    /\ fpc = "raised"
    /\ mpc' = "exit"
    /\ mexit' = MEXIT_FAILURE
    /\ merror' = "Exception"
    /\ UNCHANGED <<raw_address, tdirs, tdirs0>>
    /\ UNCHANGED <<fetchVars, dirVars, validateVars, generateVars>>

\* after the fetch returned: get_mainnet_directory and create_token_directory
MCreateTokenDirectory ==
    /\ mpc = "fetch"
    /\ fpc = "returned"
    /\ mpc' = "exit"
    /\ LET token_data == fresult.data
           symbol == token_data.symbol IN
       IF ~dir_exists
         THEN mexit' = MEXIT_FAILURE /\ merror' = "FileNotFoundError"
              /\ tdirs' = tdirs
       ELSE IF symbol \in DOMAIN tdirs
         THEN mexit' = MEXIT_FAILURE /\ merror' = "FileExistsError"
              /\ tdirs' = tdirs
       ELSE \E o \in CreateOutcomes :
              /\ tdirs' = IF o = "mkdir_failed" THEN tdirs
                          ELSE [s \in (DOMAIN tdirs) \cup {symbol} |->
                                   IF s # symbol THEN tdirs[s]
                                   ELSE IF o = "created"
                                     THEN TokenDir(TRUE, token_data)
                                     ELSE TokenDir(FALSE, << >>)]
              /\ mexit' = IF o = "created" THEN MEXIT_SUCCESS ELSE MEXIT_FAILURE
              /\ merror' = IF o = "created" THEN merror ELSE "Exception"
    /\ UNCHANGED <<raw_address, tdirs0>>
    /\ UNCHANGED <<fetchVars, dirVars, validateVars, generateVars>>

NextAddToken ==
    \/ MValidateAddress
    \/ MConnect
    \/ AttemptSucceeds
    \/ AttemptFails
    \/ RaiseExhausted
    \/ MFetchFailed
    \/ MCreateTokenDirectory

SpecAddToken == InitAddToken /\ [][NextAddToken]_vars

\* ============================ the staged record, from fetch to registry
\* json.dump of a dict: its key/value pairs in insertion order
DictKeyOrder == <<"chainId", "address", "name", "symbol", "decimals", "logoURI">>
json_dump(data) ==
    LET keys == SelectSeq(DictKeyOrder, LAMBDA k : k \in DOMAIN data) IN
    [i \in DOMAIN keys |-> <<keys[i], data[keys[i]]>>]

\* json5.load of such a text: the object with those members
json5_load(text) ==
    [k \in {text[i][1] : i \in DOMAIN text} |->
        (CHOOSE p \in Range(text) : p[1] = k)[2]]

\* names under which the staged record may be put among the record files
StagedNames == {FileAAA, FileMMM}

\* The data.json written by add_token is placed, unedited, among the record
\* files that the validator and the aggregator read.
PStage ==
    /\ mpc = "exit"
    /\ mexit = MEXIT_SUCCESS
    /\ vpc = "idle"
    /\ \E f \in StagedNames :
        files' = [g \in {f} |->
                     Parsed(json5_load(json_dump(tdirs[fetched["symbol"]].data)))]
    /\ vpc' = "start"
    /\ gpc' = "start"
    /\ UNCHANGED dir_exists
    /\ UNCHANGED <<json_files, vidx, vout, vlog, vexit>>
    /\ UNCHANGED <<grun, glisting, gjson_files, gidx, tokens, registry, gruns, gexit>>
    /\ UNCHANGED <<fetchVars, mainVars>>

NextPipeline ==
    \/ NextAddToken
    \/ PStage
    \/ VListFiles
    \/ VValidateFile
    \/ VReturn
    \/ GListFiles
    \/ GParseFile
    \/ GWrite

SpecPipeline == InitAddToken /\ [][NextPipeline]_vars

\* =================================================== properties: the fetcher
RECURSIVE Pow(_, _)
Pow(b, e) == IF e = 0 THEN 1 ELSE b * Pow(b, e - 1)

\* the events of the executor of field f, in order
OpEvents(f) == SelectSeq(events, LAMBDA ev : ev.op = f)
OpCalls(f) == SelectSeq(events, LAMBDA ev : ev.op = f /\ ev.kind = "call")
OpSleeps(f) == SelectSeq(events, LAMBDA ev : ev.op = f /\ ev.kind = "sleep")
\* the field whose executor raised
RaisedField == CHOOSE f \in Fields : OperationName(f) = fresult.operation_name

\* C1: with max_retries = n >= 1 and an operation that fails on every call,
\* the executor ends in the exhausted failure after exactly n calls and n-1
\* sleeps; calls and sleeps alternate, starting and ending with a call, so
\* every sleep lies between two attempts and none follows the n-th.
C1_ExhaustedAfterNCalls ==
    (fpc = "raised" /\ max_retries >= 1) =>
        LET ev == OpEvents(RaisedField) IN
        /\ fresult.kind = "Exception"
        /\ Len(OpCalls(RaisedField)) = max_retries
        /\ \A i \in 1..max_retries : ~OpCalls(RaisedField)[i].ok
        /\ Len(OpSleeps(RaisedField)) = max_retries - 1
        /\ Len(ev) = 2 * max_retries - 1
        /\ \A i \in 1..Len(ev) :
              ev[i].kind = IF i % 2 = 1 THEN "call" ELSE "sleep"
        /\ ev[Len(ev)].kind = "call"

C1_Witness ==
    /\ fpc = "raised"
    /\ max_retries = 3
    /\ Len(OpCalls(RaisedField)) = 3
    /\ Len(OpSleeps(RaisedField)) = 2

\* C2: an operation that fails k times and then succeeds (max_retries > k)
\* makes the executor return the operation's result after k+1 calls; the
\* i-th of its k sleeps lasts retry_delay * retry_backoff^(i-1), and the
\* successful call is the executor's last event.
C2_BackoffSequence ==
    \A f \in DOMAIN fetched :
        LET ev == OpEvents(f)
            k == Len(OpSleeps(f)) IN
        /\ k < max_retries
        /\ Len(OpCalls(f)) = k + 1
        /\ Len(ev) = 2 * k + 1
        /\ \A i \in 1..k :
              /\ ev[2 * i - 1].kind = "call" /\ ~ev[2 * i - 1].ok
              /\ ev[2 * i].kind = "sleep"
              /\ ev[2 * i].delay = retry_delay * Pow(retry_backoff, i - 1)
        /\ ev[2 * k + 1].kind = "call" /\ ev[2 * k + 1].ok
        /\ fetched[f] = ev[2 * k + 1].val

C2_Witness ==
    /\ "name" \in DOMAIN fetched
    /\ Len(OpSleeps("name")) = 2
    /\ OpSleeps("name")[2].delay = retry_delay * retry_backoff
    /\ retry_backoff > 1

\* C3: when name and symbol succeed at their first call and every decimals
\* call fails, the fetch raises the exhausted failure of "fetch decimals",
\* returns no record, has called name and symbol once each and decimals
\* max_retries times.
C3_DecimalsExhausted ==
    (/\ fpc = "raised"
     /\ Len(OpCalls("name")) >= 1 /\ OpCalls("name")[1].ok
     /\ Len(OpCalls("symbol")) >= 1 /\ OpCalls("symbol")[1].ok) =>
        /\ fresult.kind = "Exception"
        /\ fresult.operation_name = "fetch decimals"
        /\ fresult.attempts = max_retries
        /\ Len(OpCalls("name")) = 1
        /\ Len(OpCalls("symbol")) = 1
        /\ Len(OpCalls("decimals")) = max_retries
        /\ \A i \in 1..Len(OpCalls("decimals")) : ~OpCalls("decimals")[i].ok
        /\ DOMAIN fetched = {"name", "symbol"}

C3_Witness ==
    /\ fpc = "raised"
    /\ max_retries = 3
    /\ Len(events) = 7
    /\ events[1].ok /\ events[2].ok
    /\ Len(OpCalls("decimals")) = 3

\* ================================================= properties: the validator
VTerminated == vpc \in {"done", "aborted"}
AllFieldsPresent(d) == \A k \in Range(REQUIRED_FIELDS) : k \in DOMAIN d
ProbeAnsweredImage(probes) ==
    /\ Len(probes) = 1
    /\ ~probes[1].raised
    /\ probes[1].ctype \in {"image/png", "image/jpeg", "image/jpg", "image/svg+xml"}
FirstChecks(n) == SubSeq(<<"fields", "chainId", "address", "logoURI", "decimals">>, 1, n)

\* C4: the checks run in the order fields, chainId, address, logo, decimals
\* and stop at the first that fails: a record with several defects stops at
\* the first of them in that order, no later check is performed, and no logo
\* probe is issued when a field is missing, the chainId is wrong or the
\* address is malformed.
C4_FirstDefectInOrder ==
    \A i \in DOMAIN vlog :
        LET e == vlog[i]
            d == files[e.file].data IN
        files[e.file].parses =>
            IF ~AllFieldsPresent(d)
              THEN e.failed = "fields" /\ e.performed = FirstChecks(1)
                   /\ e.probes = << >> /\ e.ret = "False"
            ELSE IF d.chainId # 143
              THEN e.failed = "chainId" /\ e.performed = FirstChecks(2)
                   /\ e.probes = << >> /\ e.ret = "False"
            ELSE IF ~is_valid_address(d.address)
              THEN e.failed = "address" /\ e.performed = FirstChecks(3)
                   /\ e.probes = << >> /\ e.ret = "False"
            ELSE IF ~ProbeAnsweredImage(e.probes)
              THEN e.failed = "logoURI" /\ e.performed = FirstChecks(4)
                   /\ Len(e.probes) = 1 /\ e.ret # "True"
            ELSE IF d.decimals < 6 \/ d.decimals > 36
              THEN e.failed = "decimals" /\ e.performed = FirstChecks(5)
                   /\ e.ret = "False"
            ELSE e.failed = None /\ e.performed = FirstChecks(5) /\ e.ret = "True"

C4_Witness ==
    \E i \in DOMAIN vlog :
        LET d == files[vlog[i].file].data IN
        /\ files[vlog[i].file].parses
        /\ AllFieldsPresent(d)
        /\ d.chainId = 1 /\ d.address = AddrNonHex /\ d.decimals = 37
        /\ vlog[i].failed = "chainId"
        /\ vlog[i].probes = << >>

\* C5: a record that passes checks 1-4 is reported valid exactly when
\* 6 <= decimals <= 36: 5 and 37 are rejected at the decimals check, 6 and
\* 36 are accepted.
C5_DecimalsRange ==
    \A i \in DOMAIN vlog :
        LET e == vlog[i]
            d == files[e.file].data IN
        (/\ files[e.file].parses
         /\ AllFieldsPresent(d)
         /\ d.chainId = 143
         /\ is_valid_address(d.address)
         /\ ProbeAnsweredImage(e.probes)) =>
            /\ (e.ret = "True") <=> (6 <= d.decimals /\ d.decimals <= 36)
            /\ e.ret \in {"True", "False"}
            /\ e.ret = "False" => e.failed = "decimals"
            /\ d.decimals \in {5, 37} => e.ret = "False"
            /\ d.decimals \in {6, 36} => e.ret = "True"
            /\ vout[i] = [file |-> e.file, valid |-> (e.ret = "True")]

C5_Witness ==
    \E i \in DOMAIN vlog :
        /\ files[vlog[i].file].parses
        /\ AllFieldsPresent(files[vlog[i].file].data)
        /\ files[vlog[i].file].data.decimals = 6
        /\ ProbeAnsweredImage(vlog[i].probes)
        /\ vlog[i].ret = "True"
        /\ vout[i].valid

\* C6: the logo check issues one probe and never repeats it, and a probe
\* that fails at the network level (the request raises, or the response has
\* no content-type) makes the record invalid: is_valid_file returns False,
\* the record gets the invalid line, and the run is not aborted.
C6_ProbeFailureReportedInvalid ==
    \A i \in DOMAIN vlog :
        /\ Len(vlog[i].probes) <= 1
        /\ (Len(vlog[i].probes) = 1
            /\ (vlog[i].probes[1].raised \/ vlog[i].probes[1].ctype = None)) =>
               /\ vlog[i].ret = "False"
               /\ vpc # "aborted"
               /\ i \in DOMAIN vout
               /\ vout[i] = [file |-> vlog[i].file, valid |-> FALSE]

\* C7: when the run over an existing directory has ended, every record file
\* of the directory has exactly one verdict, in file name order, whatever
\* the outcome of each record.
C7_EveryFileGetsVerdict ==
    (VTerminated /\ dir_exists) =>
        /\ Len(vout) = Cardinality({f \in DOMAIN files : IsRecordFile(f)})
        /\ {vout[i].file : i \in DOMAIN vout} = {f \in DOMAIN files : IsRecordFile(f)}
        /\ \A i \in 1..(Len(vout) - 1) : LexLess(vout[i].file, vout[i + 1].file)

\* C8: the exit status tells apart a missing directory, a directory without
\* record files, and a run that found an invalid record; and a run that
\* found an invalid record does not exit like a run whose records are all
\* valid.
C8_ExitStatusDistinguishes ==
    VTerminated =>
        LET recordFiles == {f \in DOMAIN files : IsRecordFile(f)}
            someInvalid == \E i \in DOMAIN vlog : vlog[i].ret # "True"
            allValid == /\ dir_exists /\ recordFiles # {}
                        /\ Len(vlog) = Cardinality(recordFiles)
                        /\ \A i \in DOMAIN vlog : vlog[i].ret = "True" IN
        /\ ~dir_exists => vexit = EXIT_MISSING_DIR
        /\ (dir_exists /\ recordFiles = {}) =>
              vexit = EXIT_NO_FILES /\ vexit # EXIT_MISSING_DIR
        /\ allValid => vexit = EXIT_RETURN
        /\ someInvalid => vexit \notin {EXIT_MISSING_DIR, EXIT_NO_FILES, EXIT_RETURN}

\* ================================================ properties: the aggregator
RecordFiles == {f \in DOMAIN files : IsRecordFile(f)}
AllParse == \A f \in RecordFiles : files[f].parses
DocTokens(doc) == doc[5][2]
DocKeys(doc) == [k \in DOMAIN doc |-> doc[k][1]]

\* C9: aggregation is all-or-nothing.  While some record file of the
\* directory does not parse, no step writes or modifies the registry file and
\* a finished run has ended at the parse error; the registry file changes
\* only in a step taken after every listed file was parsed, and a document
\* written to it holds one token per record file.
C9_AllOrNothing ==
    [][/\ ~AllParse => registry' = registry
       /\ (~AllParse /\ dir_exists /\ gpc' = "done") =>
              gruns'[Len(gruns')].outcome = "parse_error"
       /\ registry' # registry =>
              /\ AllParse
              /\ gidx > Len(gjson_files)
              /\ Len(tokens) = Cardinality(RecordFiles)
              /\ registry'.doc # << >> =>
                    Len(DocTokens(registry'.doc)) = Cardinality(RecordFiles)
      ]_vars

C9_Witness ==
    /\ gpc = "done"
    /\ gruns[Len(gruns)].outcome = "parse_error"
    /\ Len(tokens) >= 1
    /\ Len(gjson_files) > Len(tokens)
    /\ registry = NoFile

\* C10: whatever order the file system lists the directory in, the tokens of
\* a written registry follow the file names in increasing (code point)
\* order, its keys are name, logoURI, keywords, timestamp, tokens, version in
\* that order, and two runs over the unchanged directory write documents
\* that agree in every field except the value of timestamp.
C10_SortedAndRepeatable ==
    /\ \A i \in DOMAIN gruns :
          gruns[i].outcome = "written" =>
              LET names == gruns[i].json_files
                  doc == gruns[i].doc IN
              /\ Range(names) = RecordFiles
              /\ Len(names) = Cardinality(RecordFiles)
              /\ \A a \in 1..Len(names) : \A b \in 1..Len(names) :
                    a < b => LexLess(names[a], names[b])
              /\ DocTokens(doc) = [k \in 1..Len(names) |-> files[names[k]].data]
              /\ DocKeys(doc) = <<"name", "logoURI", "keywords", "timestamp",
                                  "tokens", "version">>
    /\ \A i \in DOMAIN gruns : \A j \in DOMAIN gruns :
          (gruns[i].outcome = "written" /\ gruns[j].outcome = "written") =>
              /\ Len(gruns[i].doc) = Len(gruns[j].doc)
              /\ DocKeys(gruns[i].doc) = DocKeys(gruns[j].doc)
              /\ \A k \in DOMAIN gruns[i].doc :
                    k # 4 => gruns[i].doc[k] = gruns[j].doc[k]

C10_Witness ==
    /\ Len(gruns) = 2
    /\ gruns[1].outcome = "written" /\ gruns[2].outcome = "written"
    /\ gruns[1].listing = <<FileZZZ, FileAAA>>
    /\ gruns[2].listing = <<FileAAA, FileZZZ>>
    /\ files[FileAAA] # files[FileZZZ]
    /\ DocTokens(gruns[1].doc) = <<files[FileAAA].data, files[FileZZZ].data>>
    /\ gruns[1].doc[4] # gruns[2].doc[4]

\* the record files of the directory in increasing file name order
SortedRecordFiles ==
    CHOOSE l \in Listings(RecordFiles) :
        \A a \in DOMAIN l : \A b \in DOMAIN l : a < b => LexLess(l[a], l[b])

\* C11: the aggregator never validates.  When every record file parses, a
\* written registry has one token per record file and its i-th token is the
\* parsed content of the i-th file, unchanged, also for a record without
\* logoURI, with another chainId, a malformed address or decimals outside
\* [6, 36]; the aggregator calls neither is_valid_file nor the logo probe.
C11_TokensVerbatim ==
    /\ vlog = << >>
    /\ \A i \in DOMAIN gruns :
          gruns[i].outcome = "written" =>
              /\ AllParse
              /\ Len(DocTokens(gruns[i].doc)) = Cardinality(RecordFiles)
              /\ \A k \in 1..Cardinality(RecordFiles) :
                    DocTokens(gruns[i].doc)[k] = files[SortedRecordFiles[k]].data
    /\ (registry.exists /\ registry.doc # << >>) =>
          DocTokens(registry.doc) =
              [k \in 1..Cardinality(RecordFiles) |-> files[SortedRecordFiles[k]].data]

C11_Witness ==
    /\ gruns # << >>
    /\ gruns[1].outcome = "written"
    /\ DocTokens(gruns[1].doc) =
          <<Without(GoodRecord, {"logoURI"}), Record(1, AddrNonHex, 37)>>

\* ================================================== properties: add_token
ProbeIndexes == {i \in DOMAIN events : events[i].kind = "is_connected"}
ContractCalls == {i \in DOMAIN events : events[i].kind = "call"}
NewTokenDirs == (DOMAIN tdirs) \ (DOMAIN tdirs0)
FetchFailure ==
    \/ raw_address # << >> /\ ~is_address(raw_address)
    \/ \E i \in ProbeIndexes : ~events[i].ok
    \/ fpc = "raised"

\* C12: a fetch failure is fatal and leaves nothing behind.  The steps run
\* in the order validate address, connect, fetch, create directory; when the
\* address is invalid, the endpoint is not connected or a field's retries
\* are exhausted, main returns 1 and no token directory or data file was
\* created.  A data file exists only after all three fields were fetched
\* and holds exactly chainId, address, name, symbol, decimals.
C12_NoPartialOutput ==
    /\ ProbeIndexes # {} =>
          /\ is_address(raw_address)
          /\ address = to_checksum_address(raw_address)
    /\ ContractCalls # {} =>
          /\ events[1].kind = "is_connected" /\ events[1].ok
          /\ \A i \in ContractCalls : i > 1
    /\ tdirs # tdirs0 =>
          /\ fpc = "returned"
          /\ DOMAIN fetched = Fields
          /\ \A s \in DOMAIN tdirs0 : s \in DOMAIN tdirs /\ tdirs[s] = tdirs0[s]
    /\ (mpc = "exit" /\ FetchFailure) =>
          /\ mexit = 1
          /\ tdirs = tdirs0
    /\ \A s \in NewTokenDirs :
          tdirs[s].has_file =>
              /\ DOMAIN tdirs[s].data =
                    {"chainId", "address", "name", "symbol", "decimals"}
              /\ tdirs[s].data.chainId = 143
              /\ tdirs[s].data.address = address
              /\ tdirs[s].data.name = fetched["name"]
              /\ tdirs[s].data.symbol = fetched["symbol"]
              /\ tdirs[s].data.decimals = fetched["decimals"]
              /\ s = fetched["symbol"]
              /\ mexit = 0

C12_Witness ==
    /\ mpc = "exit"
    /\ fpc = "raised"
    /\ fresult.operation_name = "fetch decimals"
    /\ DOMAIN fetched = {"name", "symbol"}
    /\ dir_exists
    /\ mexit = 1
    /\ tdirs = tdirs0

\* C15: the liveness probe is issued once.  When it answers "not
\* connected", main ends at once with ConnectionError and status 1: no
\* sleep, no second probe and no contract call follow.
C15_ConnectFailsImmediately ==
    /\ Cardinality(ProbeIndexes) <= 1
    /\ (\E i \in ProbeIndexes : ~events[i].ok) =>
          /\ Len(events) = 1
          /\ mpc = "exit"
          /\ merror = "ConnectionError"
          /\ mexit = 1
          /\ fpc = "idle"
          /\ fetched = << >>
          /\ tdirs = tdirs0

C15_Witness ==
    /\ mpc = "exit"
    /\ merror = "ConnectionError"
    /\ events = <<ProbeEvent(FALSE)>>

\* ============================================ properties: address and checks
\* prefix 0x, length 42, hex-only payload
WellFormedAddress(a) ==
    /\ Len(a) = 42
    /\ a[1] = "0" /\ a[2] = "x"
    /\ \A i \in 3..42 :
          a[i] \in {"0", "1", "2", "3", "4", "5", "6", "7", "8", "9",
                    "a", "b", "c", "d", "e", "f", "A", "B", "C", "D", "E", "F"}

\* the record of a log entry passes every check other than the address one
OtherwiseValid(e) ==
    /\ files[e.file].parses
    /\ AllFieldsPresent(files[e.file].data)
    /\ files[e.file].data.chainId = 143
    /\ 6 <= files[e.file].data.decimals /\ files[e.file].data.decimals <= 36
    /\ (e.probes # << >> => ProbeAnsweredImage(e.probes))

\* C13 as stated: of the spellings of a well-formed address, the validator
\* accepts the checksummed one and rejects every other casing.
C13_OnlyCanonicalCasing ==
    \A i \in DOMAIN vlog :
        LET e == vlog[i]
            a == files[e.file].data.address IN
        (OtherwiseValid(e) /\ WellFormedAddress(a)) =>
            ((e.ret = "True") <=> (a = to_checksum_address(a)))

\* C13 amended: the validator accepts an address by its structure alone.  A
\* record that is otherwise valid is accepted exactly when its address has
\* the prefix 0x, length 42 and a hex-only payload, in any casing: the
\* checksummed, the all-lower-case and the all-upper-case spelling of the
\* same address are all accepted.
C13_AnyCasingAccepted ==
    \A i \in DOMAIN vlog :
        LET e == vlog[i]
            a == files[e.file].data.address IN
        OtherwiseValid(e) =>
            /\ (e.ret = "True") <=> WellFormedAddress(a)
            /\ ~WellFormedAddress(a) => e.failed = "address" /\ e.ret = "False"
            /\ a \in {AddrChecksummed, AddrLower, AddrUpper} => e.ret = "True"

C13_Witness ==
    \E i \in DOMAIN vlog :
        /\ OtherwiseValid(vlog[i])
        /\ files[vlog[i].file].data.address = AddrUpper
        /\ AddrUpper # to_checksum_address(AddrUpper)
        /\ vlog[i].ret = "True"

\* C16: the validator is sound and read-only.  A record is reported valid
\* only if it parsed, has all six required fields, chainId 143, an address
\* with prefix 0x, length 42 and hex-only payload, a probe answered with an
\* allowed image content-type, and 6 <= decimals <= 36; and no step of the
\* run adds, removes or changes a field of a record.
C16_ValidOnlyIfAllChecksHold ==
    [][/\ files' = files
       /\ \A i \in DOMAIN vlog' :
             vlog'[i].ret = "True" =>
                 LET d == files[vlog'[i].file].data IN
                 /\ files[vlog'[i].file].parses
                 /\ {"chainId", "address", "name", "symbol", "decimals",
                     "logoURI"} \subseteq DOMAIN d
                 /\ d.chainId = 143
                 /\ WellFormedAddress(d.address)
                 /\ ProbeAnsweredImage(vlog'[i].probes)
                 /\ 6 <= d.decimals /\ d.decimals <= 36
                 /\ vout'[i] = [file |-> vlog'[i].file, valid |-> TRUE]
       /\ \A i \in DOMAIN vout' : vout'[i].valid => vlog'[i].ret = "True"
      ]_vars

C16_Witness ==
    \E i \in DOMAIN vlog :
        /\ vlog[i].ret = "True"
        /\ vout[i].valid
        /\ files[vlog[i].file] = Parsed(GoodRecord)

\* ======================================= properties: the fetcher, continued
FieldRank(f) == CASE f = "name" -> 1 [] f = "symbol" -> 2 [] f = "decimals" -> 3
\* the field named by the exception the fetch raised
FailedField ==
    CASE fresult.operation_name = "fetch name" -> "name"
      [] fresult.operation_name = "fetch symbol" -> "symbol"
      [] fresult.operation_name = "fetch decimals" -> "decimals"
AllCalls == SelectSeq(events, LAMBDA ev : ev.kind = "call")
AllSleeps == SelectSeq(events, LAMBDA ev : ev.kind = "sleep")

\* C14: when every attempt failed (max_retries >= 1), the failure carries
\* the error of the last attempt as its cause, the operation name and the
\* attempt count; when the fetch returns, its result is the record of the
\* values read and carries no error of an earlier attempt.
C14_LastErrorIsCause ==
    /\ (fpc = "raised" /\ max_retries >= 1) =>
          LET last == events[Len(events)] IN
          /\ last.kind = "call" /\ ~last.ok
          /\ fresult.kind = "Exception"
          /\ fresult.cause = last.err
          /\ fresult.cause \in Errors
          /\ FailedField = last.op
          /\ fresult.attempts = max_retries
    /\ fpc = "returned" =>
          /\ DOMAIN fresult = {"kind", "data"}
          /\ fresult.kind = "record"
          /\ \A f \in Fields :
                /\ fresult.data[f] = OpCalls(f)[Len(OpCalls(f))].val
                /\ OpCalls(f)[Len(OpCalls(f))].ok

C14_Witness ==
    /\ fpc = "raised"
    /\ max_retries = 3
    /\ Len(events) = 5
    /\ events[1].err = "Web3Exception"
    /\ events[5].err = "TimeoutError"
    /\ fresult.cause = "TimeoutError"

FetchOrderInvariant ==
    /\ \A i \in DOMAIN events : \A j \in DOMAIN events :
          i < j => FieldRank(events[i].op) <= FieldRank(events[j].op)
    /\ \A f \in Fields :
          /\ OpEvents(f) # << >> =>
                \A g \in Fields : FieldRank(g) < FieldRank(f) => g \in DOMAIN fetched
          /\ OpSleeps(f) # << >> => OpSleeps(f)[1].delay = retry_delay
    /\ (fpc = "raised" /\ fresult.kind = "Exception") =>
          \A f \in Fields :
              FieldRank(f) > FieldRank(FailedField) => OpEvents(f) = << >>
    /\ max_retries >= 1 =>
          /\ Len(AllCalls) <= 3 * max_retries
          /\ Len(AllSleeps) <= 3 * (max_retries - 1)

\* C17: the fields are fetched in the order name, symbol, decimals, each
\* executor starting again at retry_delay; once a field's retries are
\* exhausted no later field is called; for max_retries = n >= 1 the fetch
\* makes at most 3n contract calls and 3(n-1) sleeps, and it terminates.
C17_OrderBudgetTermination ==
    /\ []FetchOrderInvariant
    /\ <>(fpc \in {"returned", "raised"})

C17_Witness ==
    /\ fpc = "returned"
    /\ max_retries = 2
    /\ Len(AllCalls) = 6
    /\ Len(AllSleeps) = 3
    /\ OpSleeps("decimals")[1].delay = retry_delay

\* C19: with max_retries <= 0 the operation is never called and nothing
\* sleeps, and the executor still raises its failure, with no underlying
\* cause; so a finished fetch has called the contract at least once exactly
\* when max_retries >= 1.
C19_NoAttemptWithoutBudget ==
    /\ max_retries <= 0 =>
          /\ events = << >>
          /\ fpc \in {"name", "raised"}
          /\ fpc = "raised" =>
                /\ fresult.kind = "Exception"
                /\ fresult.cause = None
                /\ fresult.operation_name = "fetch name"
                /\ fresult.attempts = max_retries
    /\ fpc \in {"returned", "raised"} =>
          ((AllCalls # << >>) <=> (max_retries >= 1))

C19_Witness ==
    /\ max_retries = 0
    /\ fpc = "raised"
    /\ fresult.cause = None
    /\ events = << >>

====
